---- MODULE Spec2Model ----
(***************************************************************************)
(* Model of sbte-formatter/src/core/main.ts: parseCsv (the FileReader      *)
(* handlers up to the hand-over to the CSV parser), formatData (the pivot  *)
(* of flat result rows into one record per student) and getAllCourses.     *)
(*                                                                         *)
(* Two specifications share the variables:                                 *)
(*   Spec       a formatData run, one forEach iteration per step, followed *)
(*              by getAllCourses on the value it returned;                 *)
(*   SpecParse  a parseCsv run: one FileReader event and its handler.      *)
(***************************************************************************)
EXTENDS Integers, Sequences, FiniteSets

VARIABLES
    data,           \* formatData: the input array (ResultType[])
    i,              \* formatData: number of rows the forEach has processed
    formattedData,  \* formatData: the array being built (FormattedType[])
    courses,        \* getAllCourses: the array it returned
    pc,             \* "idle" | "formatData" | "done"
    file,           \* parseCsv: the text of inputFile, a sequence of characters
    ppc,            \* "idle" | "reading" | "done"
    allLines,       \* parseCsv: allLines after line 59
    parserInput,    \* parseCsv: the text handed to Papa.parse
    calls,          \* parseCsv: the callbacks invoked so far, in order
    event           \* parseCsv: the FileReader event delivered, "none" before it

vars == <<data, i, formattedData, courses, pc,
          file, ppc, allLines, parserInput, calls, event>>

pivotVars == <<data, i, formattedData, courses, pc>>
parseVars == <<file, ppc, allLines, parserInput, calls, event>>

(***************************************************************************)
(* Bounds.                                                                 *)
(***************************************************************************)
MaxRows == 4        \* rows of an input in which few fields vary
MaxShort == 2       \* rows of an input in which grade, attendance, withheld vary
MaxLen == 5         \* characters of a file

\* JavaScript null (the fields are strings or null; the model keeps them strings).
NULL == "null"

SeqUpTo(S, n) == UNION {[1..k -> S] : k \in 0..n}

(***************************************************************************)
(* Values of the fields of ResultType (main.ts 16-28).                     *)
(***************************************************************************)
RegNos == {1, 2}
Courses == {"1001", "X", "Y", "Z"}
Grades == {"F", "E", "D", "C", "B", "A", "S"}
Attendances == {"Present", "Absent"}
Withhelds == {"Withheld", "With held for Malpractice", NULL}

\* studentName, branch, semester, examType of a row
Metas ==
    { [studentName |-> "Anu",  branch |-> "CT", semester |-> 1, examType |-> "Regular"],
      [studentName |-> "Binu", branch |-> "CT", semester |-> 2, examType |-> "Supplementary"],
      [studentName |-> "Anu",  branch |-> "EL", semester |-> 2, examType |-> "Regular"] }

ResultType(reg, meta, course, att, wh, grade) ==
    [ registerNo  |-> reg,
      studentName |-> meta.studentName,
      branch      |-> meta.branch,
      semester    |-> meta.semester,
      course      |-> course,
      examType    |-> meta.examType,
      attendance  |-> att,
      withheld    |-> wh,
      iMark       |-> NULL,
      grade       |-> grade,
      result      |-> NULL ]

Meta0 == [studentName |-> "Anu", branch |-> "CT", semester |-> 1, examType |-> "Regular"]

\* Inputs in which the student and the course vary.
KeyRows ==
    { ResultType(r, Meta0, c, "Present", NULL, "A") : r \in RegNos, c \in Courses }

\* Inputs in which the student and the descriptive fields vary.
MetaRows ==
    { ResultType(r, m, "X", "Present", NULL, "A") : r \in RegNos, m \in Metas }

\* Inputs in which grade, attendance and withheld vary.
OutcomeRows ==
    { ResultType(x[1], Meta0, x[2], x[3], x[4], x[5]) :
        x \in RegNos \X {"X", "Y"} \X Attendances \X Withhelds \X {NULL, "A", "F"} }

Inputs ==
    SeqUpTo(KeyRows, MaxRows) \cup SeqUpTo(MetaRows, MaxRows)
        \cup SeqUpTo(OutcomeRows, MaxShort)

(***************************************************************************)
(* A JavaScript object used as a map (FormattedType.grades): the sequence  *)
(* of its own properties in the order Object.keys lists them, which is the *)
(* array-index keys in ascending numeric order and then the other string   *)
(* keys in the order they were created.                                    *)
(***************************************************************************)
\* The number a key denotes when it is an array index ("1001"), else -1.
ArrayIndex(k) == CASE k = "1001" -> 1001 [] OTHER -> -1

HasKey(obj, k) == \E j \in 1..Len(obj) : obj[j].key = k

\* obj[k], for a key the object has
ObjGet(obj, k) == obj[CHOOSE j \in 1..Len(obj) : obj[j].key = k].value

ObjKeys(obj) == [j \in 1..Len(obj) |-> obj[j].key]

\* obj[k] = v
ObjSet(obj, k, v) ==
    IF HasKey(obj, k)
    THEN [j \in 1..Len(obj) |-> IF obj[j].key = k THEN [key |-> k, value |-> v] ELSE obj[j]]
    ELSE LET before ==
                 IF ArrayIndex(k) >= 0
                 THEN Cardinality({j \in 1..Len(obj) :
                          ArrayIndex(obj[j].key) >= 0 /\ ArrayIndex(obj[j].key) < ArrayIndex(k)})
                 ELSE Len(obj)
         IN SubSeq(obj, 1, before) \o <<[key |-> k, value |-> v]>>
                \o SubSeq(obj, before + 1, Len(obj))

(***************************************************************************)
(* formatData (main.ts 86-117).                                            *)
(***************************************************************************)
\* JavaScript truthiness of a value of type Grade | null
Truthy(v) == v /= NULL /\ v /= ""

\* formattedData.findIndex((i) => i.registerNo === item.registerNo): the
\* position (from 1) of the first match, -1 when there is none
findIndex(fd, regNo) ==
    IF \E j \in 1..Len(fd) : fd[j].registerNo = regNo
    THEN CHOOSE j \in 1..Len(fd) :
             /\ fd[j].registerNo = regNo
             /\ \A k \in 1..(j - 1) : fd[k].registerNo /= regNo
    ELSE -1

\* mutant: withheld is looked at before attendance
FirstOutcomeWithheldFirst(item) ==
    IF Truthy(item.grade) THEN item.grade
    ELSE IF item.withheld = "With held for Malpractice" THEN "F"
    ELSE IF item.withheld = "Withheld" THEN "Withheld"
    ELSE IF item.attendance = "Absent" THEN "Absent"
    ELSE NULL

\* the conditional chain of lines 100-108
FirstOutcome(item) ==
    IF Truthy(item.grade) THEN item.grade
    ELSE IF item.attendance = "Absent" THEN "Absent"
    ELSE IF item.withheld = "With held for Malpractice" THEN "F"
    ELSE IF item.withheld = "Withheld" THEN "Withheld"
    ELSE NULL

\* the object pushed at lines 93-111
NewStudent(item) ==
    [ registerNo  |-> item.registerNo,
      studentName |-> item.studentName,
      branch      |-> item.branch,
      semester    |-> item.semester,
      examType    |-> item.examType,
      grades      |-> ObjSet(<<>>, item.course, FirstOutcome(item)),
      withheld    |-> item.withheld ]

\* mutant: keeps the first value written for a course
SetGradeOnce(rec, item) ==
    IF HasKey(rec.grades, item.course) THEN rec
    ELSE [rec EXCEPT !.grades = ObjSet(rec.grades, item.course, item.grade)]

\* mutant: replaces the grades object by one holding the new course only
SetGradeFresh(rec, item) ==
    [rec EXCEPT !.grades = ObjSet(<<>>, item.course, item.grade)]

\* mutant: applies the first-row rule to later rows too
SetGradeDerived(rec, item) ==
    [rec EXCEPT !.grades = ObjSet(rec.grades, item.course, FirstOutcome(item))]

\* mutant: refreshes withheld from the later row
SetGradeAndWithheld(rec, item) ==
    [rec EXCEPT !.grades = ObjSet(rec.grades, item.course, item.grade),
                !.withheld = item.withheld]

\* formattedData[index].grades[item.course] = item.grade (line 113)
SetGrade(rec, item) ==
    [rec EXCEPT !.grades = ObjSet(rec.grades, item.course, item.grade)]

\* mutant: a new student is put in front (unshift for push)
FormatItemUnshift(fd, item) ==
    LET index == findIndex(fd, item.registerNo)
    IN IF index = -1
       THEN <<NewStudent(item)>> \o fd
       ELSE [fd EXCEPT ![index] = SetGrade(fd[index], item)]

\* one call of the forEach callback (lines 88-115)
FormatItem(fd, item) ==
    LET index == findIndex(fd, item.registerNo)
    IN IF index = -1
       THEN Append(fd, NewStudent(item))
       ELSE [fd EXCEPT ![index] = SetGrade(fd[index], item)]

(***************************************************************************)
(* getAllCourses (main.ts 120-130).                                        *)
(***************************************************************************)
RECURSIVE AddCourses(_, _)
\* the inner forEach: push every key not yet included
AddCourses(acc, keys) ==
    IF keys = <<>> THEN acc
    ELSE AddCourses(IF \E j \in 1..Len(acc) : acc[j] = Head(keys)
                    THEN acc ELSE Append(acc, Head(keys)),
                    Tail(keys))

RECURSIVE CoursesFrom(_, _)
\* the outer forEach over the students
CoursesFrom(acc, fd) ==
    IF fd = <<>> THEN acc
    ELSE CoursesFrom(AddCourses(acc, ObjKeys(Head(fd).grades)), Tail(fd))

getAllCourses(fd) == CoursesFrom(<<>>, fd)

(***************************************************************************)
(* A formatData run followed by getAllCourses.                             *)
(***************************************************************************)
ParseIdle ==
    /\ file = <<>>
    /\ ppc = "idle"
    /\ allLines = <<>>
    /\ parserInput = <<>>
    /\ calls = <<>>
    /\ event = "none"

Init ==
    /\ data \in Inputs
    /\ i = 0
    /\ formattedData = <<>>
    /\ courses = <<>>
    /\ pc = "formatData"
    /\ ParseIdle

\* data.forEach: the callback on the next row
FormatStep ==
    /\ pc = "formatData"
    /\ i < Len(data)
    /\ formattedData' = FormatItem(formattedData, data[i + 1])
    /\ i' = i + 1
    /\ UNCHANGED <<data, courses, pc>>
    /\ UNCHANGED parseVars

\* formatData returns; the caller derives the course list from its value
GetAllCourses ==
    /\ pc = "formatData"
    /\ i = Len(data)
    /\ courses' = getAllCourses(formattedData)
    /\ pc' = "done"
    /\ UNCHANGED <<data, i, formattedData>>
    /\ UNCHANGED parseVars

Next == FormatStep \/ GetAllCourses

Spec == Init /\ [][Next]_vars

(***************************************************************************)
(* parseCsv (main.ts 42-84).  A text is a sequence of characters.          *)
(***************************************************************************)
LF == "\n"
CR == "\r"
Chars == {"h", ";", ",", LF, CR}

Files == SeqUpTo(Chars, MaxLen)

RECURSIVE SplitFrom(_, _, _)
\* file.split(/\r\n|\n/): scan s from position p, cur being the line so far
SplitFrom(s, p, cur) ==
    IF p > Len(s) THEN <<cur>>
    ELSE IF s[p] = CR /\ p < Len(s) /\ s[p + 1] = LF
         THEN <<cur>> \o SplitFrom(s, p + 2, <<>>)
    ELSE IF s[p] = LF
         THEN <<cur>> \o SplitFrom(s, p + 1, <<>>)
    ELSE SplitFrom(s, p + 1, Append(cur, s[p]))

split(s) == SplitFrom(s, 1, <<>>)

\* line.replaceAll(";", ",")
replaceAll(line) == [k \in 1..Len(line) |-> IF line[k] = ";" THEN "," ELSE line[k]]

\* mutant: the replacement is applied to every line
FixEveryLine(lines) == [k \in 1..Len(lines) |-> replaceAll(lines[k])]

\* allLines[0] = allLines[0].replaceAll(";", ",") (line 59)
FixHeader(lines) == [lines EXCEPT ![1] = replaceAll(lines[1])]

RECURSIVE join(_)
\* lines.join("\n")
join(lines) ==
    IF Len(lines) = 0 THEN <<>>
    ELSE IF Len(lines) = 1 THEN lines[1]
    ELSE lines[1] \o <<LF>> \o join(Tail(lines))

InitParse ==
    /\ file \in Files
    /\ ppc = "reading"
    /\ allLines = <<>>
    /\ parserInput = <<>>
    /\ calls = <<>>
    /\ event = "none"
    /\ data = <<>>
    /\ i = 0
    /\ formattedData = <<>>
    /\ courses = <<>>
    /\ pc = "idle"

\* reader.onload with a string result (lines 48-79); Papa.parse runs on the
\* joined text and its complete callback calls onSuccess
OnLoad ==
    /\ ppc = "reading"
    /\ LET lines == split(file)
       IN \/ /\ Len(lines) < 2
             /\ calls' = Append(calls, [cb |-> "onError", msg |-> "File is empty"])
             /\ UNCHANGED <<allLines, parserInput>>
          \/ /\ Len(lines) >= 2
             /\ allLines' = FixHeader(lines)
             /\ parserInput' = join(FixHeader(lines))
             /\ calls' = Append(calls, [cb |-> "onSuccess", msg |-> ""])
    /\ event' = "load"
    /\ ppc' = "done"
    /\ UNCHANGED file
    /\ UNCHANGED pivotVars

\* reader.onload whose event has no target, or whose result is not a string
\* (the returns of lines 49 and 51)
OnLoadNoText ==
    /\ ppc = "reading"
    /\ event' = "loadNoText"
    /\ ppc' = "done"
    /\ UNCHANGED <<file, allLines, parserInput, calls>>
    /\ UNCHANGED pivotVars

\* reader.onerror (lines 80-82)
OnError ==
    /\ ppc = "reading"
    /\ calls' = Append(calls, [cb |-> "onError", msg |-> "Error reading file"])
    /\ event' = "error"
    /\ ppc' = "done"
    /\ UNCHANGED <<file, allLines, parserInput>>
    /\ UNCHANGED pivotVars

NextParse == OnLoad \/ OnLoadNoText \/ OnError

SpecParse == InitParse /\ [][NextParse]_vars

(***************************************************************************)
(* Properties of formatData and getAllCourses (specification Spec).  They  *)
(* are stated over the rows processed so far, data[1..i], so that they     *)
(* cover every iteration and, at i = Len(data), the value returned.        *)
(***************************************************************************)
\* the rows of student r among the rows processed so far
RowsOf(r) == {k \in 1..i : data[k].registerNo = r}

\* the first row of student r
FirstRow(r) == CHOOSE k \in RowsOf(r) : \A m \in RowsOf(r) : k <= m

\* the rows of student r that name course c
RowsOfCourse(r, c) == {k \in RowsOf(r) : data[k].course = c}

LastRow(r, c) == CHOOSE k \in RowsOfCourse(r, c) : \A m \in RowsOfCourse(r, c) : m <= k

Students == 1..Len(formattedData)

\* C1: formatData returns exactly one record per distinct registerNo of the
\* input, in the order in which each registerNo first occurs.
C1_OneRecordPerRegisterNo ==
    /\ {formattedData[j].registerNo : j \in Students} = {data[k].registerNo : k \in 1..i}
    /\ \A j1, j2 \in Students :
           j1 < j2 =>
               /\ formattedData[j1].registerNo /= formattedData[j2].registerNo
               /\ FirstRow(formattedData[j1].registerNo)
                      < FirstRow(formattedData[j2].registerNo)

\* registerNo 2, then 1, then 2 again: two records, 2 before 1
C1_Witness ==
    /\ pc = "done"
    /\ Len(data) >= 3
    /\ data[1].registerNo = 2 /\ data[2].registerNo = 1 /\ data[3].registerNo = 2
    /\ Len(formattedData) = 2
    /\ formattedData[1].registerNo = 2

\* The outcome the claim prescribes for the first row of a student.
C2_Expected(item, out) ==
    /\ item.grade /= NULL => out = item.grade
    /\ (item.grade = NULL /\ item.attendance = "Absent") => out = "Absent"
    /\ (item.grade = NULL /\ item.attendance /= "Absent"
           /\ item.withheld = "With held for Malpractice") => out = "F"
    /\ (item.grade = NULL /\ item.attendance /= "Absent"
           /\ item.withheld = "Withheld") => out = "Withheld"
    /\ (item.grade = NULL /\ item.attendance /= "Absent"
           /\ item.withheld = NULL) => out = NULL

\* C2: when the row just processed is the first of its registerNo, the new
\* record holds exactly one outcome, under the row's course, chosen by the
\* precedence grade, Absent, malpractice as F, Withheld, null.
C2_FirstRowPrecedence ==
    (i >= 1 /\ FirstRow(data[i].registerNo) = i) =>
        LET rec == formattedData[Len(formattedData)]
        IN /\ rec.registerNo = data[i].registerNo
           /\ Len(rec.grades) = 1
           /\ rec.grades[1].key = data[i].course
           /\ C2_Expected(data[i], rec.grades[1].value)

\* a second student, first seen at row 2, absent and withheld for malpractice
\* with no grade: Absent wins
C2_Witness ==
    /\ i = 2
    /\ data[1].registerNo /= data[2].registerNo
    /\ data[2].grade = NULL
    /\ data[2].attendance = "Absent"
    /\ data[2].withheld = "With held for Malpractice"
    /\ formattedData[2].grades = <<[key |-> data[2].course, value |-> "Absent"]>>

\* C3: a row whose registerNo was seen before stores its raw grade under its
\* course, and the outcome of a (student, course) pair is the grade field of
\* the last row of the pair whenever that row is not the student's first.
C3_LaterRowsStoreRawGrade ==
    /\ (i >= 1 /\ FirstRow(data[i].registerNo) < i) =>
           \E j \in Students :
               /\ formattedData[j].registerNo = data[i].registerNo
               /\ HasKey(formattedData[j].grades, data[i].course)
               /\ ObjGet(formattedData[j].grades, data[i].course) = data[i].grade
    /\ \A j \in Students : \A e \in 1..Len(formattedData[j].grades) :
           LET r == formattedData[j].registerNo
               c == formattedData[j].grades[e].key
           IN (RowsOfCourse(r, c) /= {} /\ LastRow(r, c) /= FirstRow(r)) =>
                  formattedData[j].grades[e].value = data[LastRow(r, c)].grade

\* the example of the claim: grade A, then no grade and Absent, same course
C3_Witness ==
    /\ pc = "done"
    /\ Len(data) = 2
    /\ data[1].registerNo = 1 /\ data[1].course = "X" /\ data[1].grade = "A"
    /\ data[2].registerNo = 1 /\ data[2].course = "X" /\ data[2].grade = NULL
    /\ data[2].attendance = "Absent"
    /\ formattedData[1].grades = <<[key |-> "X", value |-> NULL]>>

\* C4: the keys of a student's grades are exactly the distinct courses of the
\* input rows with that registerNo.
C4_KeysAreTheStudentsCourses ==
    \A j \in Students :
        LET g == formattedData[j].grades
        IN /\ {g[e].key : e \in 1..Len(g)}
                  = {data[k].course : k \in RowsOf(formattedData[j].registerNo)}
           /\ \A e1, e2 \in 1..Len(g) : e1 /= e2 => g[e1].key /= g[e2].key

\* two students with two courses each, one course shared and one the second
\* student's own
C4_Witness ==
    /\ pc = "done"
    /\ Len(formattedData) = 2
    /\ Len(formattedData[1].grades) = 2
    /\ Len(formattedData[2].grades) = 2
    /\ \E c \in Courses : HasKey(formattedData[1].grades, c) /\ HasKey(formattedData[2].grades, c)
    /\ \E c \in Courses : ~HasKey(formattedData[1].grades, c) /\ HasKey(formattedData[2].grades, c)

\* the first row of student r that names course c
FirstRowOfCourse(r, c) ==
    CHOOSE k \in RowsOfCourse(r, c) : \A m \in RowsOfCourse(r, c) : k <= m

\* the first student whose grades have the key c
FirstHolder(c) ==
    CHOOSE j \in Students :
        /\ HasKey(formattedData[j].grades, c)
        /\ \A m \in 1..(j - 1) : ~HasKey(formattedData[m].grades, c)

\* c1 is met before c2 when the students are scanned in sequence and the
\* courses of each student in the order its rows first name them
MetBefore(c1, c2) ==
    \/ FirstHolder(c1) < FirstHolder(c2)
    \/ /\ FirstHolder(c1) = FirstHolder(c2)
       /\ FirstRowOfCourse(formattedData[FirstHolder(c1)].registerNo, c1)
              < FirstRowOfCourse(formattedData[FirstHolder(c1)].registerNo, c2)

\* C7: getAllCourses returns every key of some student's grades exactly once,
\* ordered by first appearance, students in sequence order and each student's
\* courses in that student's first-seen order.
C7_CoursesInFirstSeenOrder ==
    pc = "done" =>
        /\ {courses[p] : p \in 1..Len(courses)}
               = UNION {{formattedData[j].grades[e].key : e \in 1..Len(formattedData[j].grades)} :
                           j \in Students}
        /\ \A p, q \in 1..Len(courses) :
               p < q => (courses[p] /= courses[q] /\ MetBefore(courses[p], courses[q]))

\* the fields a record copies from a row
Described(x) ==
    <<x.registerNo, x.studentName, x.branch, x.semester, x.examType, x.withheld>>

\* every record carries the fields of the first row of its registerNo
C8_FieldsOfFirstRow ==
    \A j \in Students :
        Described(formattedData[j]) = Described(data[FirstRow(formattedData[j].registerNo)])

\* a step that processes a row of a student already present changes nothing
\* but that student's outcome of the row's course; no step changes the input
C8_Frame ==
    /\ data' = data
    /\ (pc = "formatData" /\ i < Len(data)
          /\ \E j \in Students : formattedData[j].registerNo = data[i + 1].registerNo) =>
           /\ Len(formattedData') = Len(formattedData)
           /\ \A j \in Students :
                  /\ Described(formattedData'[j]) = Described(formattedData[j])
                  /\ formattedData[j].registerNo /= data[i + 1].registerNo =>
                         formattedData'[j] = formattedData[j]
                  /\ \A e \in 1..Len(formattedData[j].grades) :
                         LET c == formattedData[j].grades[e].key
                         IN c /= data[i + 1].course =>
                                /\ HasKey(formattedData'[j].grades, c)
                                /\ ObjGet(formattedData'[j].grades, c)
                                       = formattedData[j].grades[e].value

\* C8: a record's registerNo, studentName, branch, semester, examType and
\* withheld are those of the first row of its registerNo; a later row of the
\* same registerNo changes only that student's outcome of the row's course;
\* the input sequence is never modified.
C8_FirstRowWinsAndFrame == []C8_FieldsOfFirstRow /\ [][C8_Frame]_vars

\* a student whose second row differs from the first in every copied field
\* but the registerNo, and whose record still shows the first row's values
C8_Witness ==
    /\ pc = "done"
    /\ Len(data) >= 2
    /\ data[1].registerNo = data[2].registerNo
    /\ data[1].studentName /= data[2].studentName
    /\ data[1].semester /= data[2].semester
    /\ data[1].examType /= data[2].examType
    /\ formattedData[1].studentName = data[1].studentName
    /\ formattedData[1].semester = data[1].semester
    /\ formattedData[1].examType = data[1].examType

\* C10: with grades drawn from the grade scale or null, "Absent" and
\* "Withheld" occur only under the course of the student's first row and only
\* if no later row of the student names that course; every other outcome is
\* a grade or null; so each student has at most one such outcome.
C10_DisplayValuesOnlyFromFirstRow ==
    \A j \in Students :
        LET g == formattedData[j].grades
            r == formattedData[j].registerNo
        IN /\ \A e \in 1..Len(g) :
                  IF g[e].value \in {"Absent", "Withheld"}
                  THEN /\ g[e].key = data[FirstRow(r)].course
                       /\ RowsOfCourse(r, g[e].key) = {FirstRow(r)}
                  ELSE g[e].value \in Grades \cup {NULL}
           /\ Cardinality({e \in 1..Len(g) : g[e].value \in {"Absent", "Withheld"}}) <= 1

\* a student absent in the first row and absent, without grade, in a later
\* row of another course: Absent under the first course only
C10_Witness ==
    /\ pc = "done"
    /\ Len(data) = 2
    /\ data[1].registerNo = data[2].registerNo
    /\ data[1].course /= data[2].course
    /\ data[2].grade = NULL /\ data[2].attendance = "Absent"
    /\ formattedData[1].grades
           = <<[key |-> data[1].course, value |-> "Absent"],
               [key |-> data[2].course, value |-> NULL]>>

(***************************************************************************)
(* Properties of parseCsv (specification SpecParse).                       *)
(***************************************************************************)
\* the lines of the file that are not empty
NonEmptyLines(s) == {k \in 1..Len(split(s)) : split(s)[k] /= <<>>}

\* C5: parseCsv reports the empty-input error, and never success, for every
\* text with fewer than 2 non-empty lines, a header followed only by a line
\* terminator included.
C5_EmptyInputFails ==
    (ppc = "done" /\ event = "load" /\ Cardinality(NonEmptyLines(file)) < 2) =>
        calls = <<[cb |-> "onError", msg |-> "File is empty"]>>

\* C6: every parseCsv run ends with exactly one callback invoked exactly
\* once, whatever the reader delivered.
C6_ExactlyOneCallback ==
    ppc = "done" => Len(calls) = 1

RECURSIVE SplitLFFrom(_, _, _)
\* the segments of a text between its line feeds
SplitLFFrom(s, p, cur) ==
    IF p > Len(s) THEN <<cur>>
    ELSE IF s[p] = LF THEN <<cur>> \o SplitLFFrom(s, p + 1, <<>>)
    ELSE SplitLFFrom(s, p + 1, Append(cur, s[p]))

\* C9: the text handed to the CSV parser (its lines being the segments
\* between the line feeds that join them) has as many lines as the input, in
\* the same order; line 1 is the input's line 1 with every semicolon replaced
\* by a comma; every later line is the input's line, semicolons included.
C9_OnlyHeaderSemicolonsReplaced ==
    (ppc = "done" /\ event = "load" /\ Len(split(file)) >= 2) =>
        LET in == split(file)
            out == SplitLFFrom(parserInput, 1, <<>>)
        IN /\ Len(out) = Len(in)
           /\ Len(out[1]) = Len(in[1])
           /\ \A k \in 1..Len(in[1]) :
                  /\ out[1][k] /= ";"
                  /\ in[1][k] = ";" => out[1][k] = ","
                  /\ in[1][k] /= ";" => out[1][k] = in[1][k]
           /\ \A n \in 2..Len(in) : out[n] = in[n]

\* "h;" CRLF ";h": the header's semicolon is replaced, the data row's is kept
C9_Witness ==
    /\ ppc = "done"
    /\ event = "load"
    /\ file = <<"h", ";", CR, LF, ";">>
    /\ parserInput = <<"h", ",", LF, ";">>
    /\ calls = <<[cb |-> "onSuccess", msg |-> ""]>>

====
